---- MODULE Spec2Model ----
(***************************************************************************)
(* A model of elevation_gen_lib.py: the ridge-plot pipeline                *)
(* generate_elevation_map and its colour ramp elevation_to_color.          *)
(*                                                                         *)
(* Numbers.  Elevations are integer metres (SRTM samples).  The vertical   *)
(* exaggeration is kept in halves (ve2 = 2 * vertical_exaggeration, the    *)
(* slider step of app.py is 0.5).  The guard term 1e-10 of lines 19 and    *)
(* 154 is kept exactly: a quantity k + c*1e-10 with integers k, c is the   *)
(* pair <<k, c>> (a "Lin"), ordered lexicographically, which is its order  *)
(* as a real number as long as |c| * 1e-10 < 1 (every c of the model is    *)
(* far below 10^10).  A quotient of two such quantities is a record        *)
(* [n |-> Lin, d |-> Lin] (a "Q") with d > 0.  Arithmetic is over the      *)
(* reals: the rounding of IEEE doubles is not modelled.                    *)
(***************************************************************************)
EXTENDS Integers, Sequences, FiniteSets, TLC

----------------------------------------------------------------------------
(* Bounds of the model *)

MaxElev == 6
MaxCells == 4
MaxExag2 == 3
MaxProfiles == 2
MaxPoints == 2
MaxDim == 3
MaxColorMin == 1
MaxColorRange == 110
NumThreads == 2

----------------------------------------------------------------------------
(* Exact arithmetic with the 1e-10 guard term *)

Lin(k, c) == <<k, c>>

LinAdd(a, b) == <<a[1] + b[1], a[2] + b[2]>>

LinSub(a, b) == <<a[1] - b[1], a[2] - b[2]>>

LinScale(m, a) == <<m * a[1], m * a[2]>>

LinNeg0(a) == a[1] < 0 \/ (a[1] = 0 /\ a[2] < 0)

LinLe(a, b) == ~LinNeg0(LinSub(b, a))

LinLt(a, b) == LinNeg0(LinSub(a, b))

Q(n, d) == [n |-> n, d |-> d]

QInt(m) == Q(Lin(m, 0), Lin(1, 0))

QScale(m, q) == Q(LinScale(m, q.n), q.d)

QAddInt(q, m) == Q(LinAdd(q.n, LinScale(m, q.d)), q.d)

QOneMinus(q) == Q(LinSub(q.d, q.n), q.d)

\* a.n * b.d - b.n * a.d as the coefficients of 1, eps, eps^2
QCross(a, b) ==
    << a.n[1] * b.d[1] - b.n[1] * a.d[1],
       a.n[1] * b.d[2] + a.n[2] * b.d[1] - b.n[1] * a.d[2] - b.n[2] * a.d[1],
       a.n[2] * b.d[2] - b.n[2] * a.d[2] >>

PolyNeg0(p) ==
    \/ p[1] < 0
    \/ p[1] = 0 /\ p[2] < 0
    \/ p[1] = 0 /\ p[2] = 0 /\ p[3] < 0

QLt(a, b) == PolyNeg0(QCross(a, b))

QLe(a, b) == ~PolyNeg0(QCross(b, a))

\* equal once the guard term is dropped (eps = 0); both denominators nonzero there
QEqModEps(a, b) == a.n[1] * b.d[1] = b.n[1] * a.d[1]

\* int(x) of Python for x >= 0: the largest integer q with q * d <= n
QFloor(q) ==
    LET q0 == q.n[1] \div q.d[1]
    IN  IF q.d[1] = 0
        THEN q.n[2] \div q.d[2]
        ELSE IF LinLe(LinScale(q0, q.d), q.n) THEN q0 ELSE q0 - 1

Clip(x, lo, hi) == IF x < lo THEN (IF lo > hi THEN hi ELSE lo) ELSE IF x > hi THEN hi ELSE x

QClip01(q) == IF LinNeg0(q.n) THEN QInt(0) ELSE IF LinLt(q.d, q.n) THEN QInt(1) ELSE q

----------------------------------------------------------------------------
(* elevation_to_color, lines 15-48 *)

EPS == Lin(0, 1)

\* (norm - a) / w for the decimal constants a = a100/100, w = w100/100
Ramp(norm, a100, w100) ==
    Q(LinSub(LinScale(100, norm.n), LinScale(a100, norm.d)), LinScale(w100, norm.d))

\* norm < a100/100
Below(norm, a100) == LinLt(LinScale(100, norm.n), LinScale(a100, norm.d))

\* the normalisation with min_elev not subtracted
ColorNormUnshifted(elevation, min_elev, max_elev) ==
    LET e == Clip(elevation, min_elev, max_elev)
    IN  QClip01(Q(Lin(e, 0), LinAdd(Lin(max_elev - min_elev, 0), EPS)))

ColorNorm(elevation, min_elev, max_elev) ==
    LET e == Clip(elevation, min_elev, max_elev)
    IN  QClip01(Q(Lin(e - min_elev, 0), LinAdd(Lin(max_elev - min_elev, 0), EPS)))

ColorRGB(norm) ==
    IF Below(norm, 1) THEN <<0, 0, 139>>
    ELSE IF Below(norm, 10) THEN
        LET t == Ramp(norm, 1, 9)
        IN  << QFloor(QScale(135, t)), QFloor(QScale(206, t)),
               QFloor(QAddInt(QScale(111, t), 139)) >>
    ELSE IF Below(norm, 30) THEN
        LET t == Ramp(norm, 10, 20)
        IN  << QFloor(QScale(135, QOneMinus(t))), QFloor(QAddInt(QScale(49, t), 206)),
               QFloor(QAddInt(QScale(5, t), 250)) >>
    ELSE IF Below(norm, 50) THEN
        LET t == Ramp(norm, 30, 20)
        IN  << 0, 255, QFloor(QScale(255, QOneMinus(t))) >>
    ELSE IF Below(norm, 75) THEN
        LET t == Ramp(norm, 50, 25)
        IN  << QFloor(QScale(255, t)), 255, 0 >>
    ELSE
        LET t == Ramp(norm, 75, 25)
        IN  << 255, QFloor(QScale(255, QOneMinus(t))), 0 >>

\* format 'matplotlib' returns the three channels divided by 255.0, any other format
\* the string 'rgb(r,g,b)'
ColorFormat(rgb, format) ==
    LET c == [k \in 1..3 |-> Clip(rgb[k], 0, 255)]
    IN  IF format = "matplotlib"
        THEN << <<c[1], 255>>, <<c[2], 255>>, <<c[3], 255>> >>
        ELSE << "rgb", c[1], c[2], c[3] >>

elevation_to_color(elevation, min_elev, max_elev, format) ==
    ColorFormat(ColorRGB(ColorNorm(elevation, min_elev, max_elev)), format)

----------------------------------------------------------------------------
(* Program constants of generate_elevation_map *)

vertical_offset == 3
AmplitudeScaleNum == 1
AmplitudeScaleDen == 2

----------------------------------------------------------------------------
(* Inputs *)

Threads == 1..NumThreads

\* elevations a raster may hold: below sea level, low ground, a peak
Elevations == {0 - 1, 1, MaxElev}

GridsOf(h, w, V) == [1..h -> [1..w -> V]]

\* the rasters of the pipeline's specification: at most MaxCells cells
Shapes == { s \in (1..MaxCells) \X (1..MaxCells) : s[1] * s[2] <= MaxCells }

SurveyGrids == UNION { GridsOf(s[1], s[2], Elevations) : s \in Shapes }

\* one raster per shape whose cells are all different: cell (r, c) holds r * w + c
RampGrids ==
    { [r \in 1..h |-> [c \in 1..w |-> (r - 1) * w + (c - 1)]] : h \in 1..MaxDim, w \in 1..MaxDim }

\* two different rasters for the concurrent invocations
ConcGrids == { << <<1>>, <<MaxElev>> >>, << <<MaxElev>>, <<0 - 1>> >> }

Params == [ve2 : 1..MaxExag2, color : BOOLEAN, np : 1..MaxProfiles, npts : 1..MaxPoints]

SamplerParams == [ve2 : {2}, color : {FALSE}, np : 1..MaxDim, npts : 1..MaxDim]

ConcParams == [ve2 : {2}, color : {FALSE}, np : {2}, npts : {1}]

\* the values tried for a range: around both ends, and eighths of the range
ColorValues(lo, hi) ==
    {lo - 1, lo, lo + 1, hi - 1, hi, hi + 1} \cup {lo + ((hi - lo) * k) \div 8 : k \in 1..7}

ColorInputs ==
    UNION { [value : ColorValues(lo, lo + r), min : {lo}, max : {lo + r},
             format : {"matplotlib", "rgb"}] :
            lo \in 0..MaxColorMin, r \in 0..MaxColorRange }

----------------------------------------------------------------------------
(* State *)

VARIABLES
    inv,        \* per invocation: the program counter and locals of generate_elevation_map
    tmpfiles,   \* the temporary DEM files that exist (named by the invocation that made them)
    figs,       \* every Figure object created, by figure id
    gcf,        \* pyplot's process-wide registry of open figures, the last is the current one
    files,      \* the output image files, by output path (one path per invocation)
    color       \* a call of elevation_to_color: its arguments and its result

vars == <<inv, tmpfiles, figs, gcf, files, color>>

NoContent == [ok |-> FALSE, grid |-> <<>>]

Idle ==
    [pc |-> "idle", params |-> [ve2 |-> 2, color |-> FALSE, np |-> 1, npts |-> 1],
     err |-> "", temp |-> FALSE, content |-> NoContent, rows |-> <<>>, cols |-> <<>>,
     profiles |-> <<>>, gmin |-> 0, gmax |-> 0, fig |-> 0, i |-> 0, scaled |-> <<>>]

NoImage == [written |-> FALSE, xlim |-> 0, ylim |-> 0, tight |-> FALSE, painted |-> <<>>]

NoColor ==
    [done |-> FALSE, in |-> [value |-> 0, min |-> 0, max |-> 0, format |-> "rgb"],
     out |-> <<"rgb", 0, 0, 0>>]

\* the output path of invocation t: every invocation is given its own
OutputPath(t) == t

Init ==
    /\ inv = [t \in Threads |-> Idle]
    /\ tmpfiles = {}
    /\ figs = <<>>
    /\ gcf = <<>>
    /\ files = [p \in Threads |-> NoImage]
    /\ color = NoColor

----------------------------------------------------------------------------
(* Pure parts of generate_elevation_map *)

Max(a, b) == IF a >= b THEN a ELSE b

SeqMin(s) == CHOOSE x \in {s[k] : k \in 1..Len(s)} : \A y \in {s[k] : k \in 1..Len(s)} : x <= y

SeqMax(s) == CHOOSE x \in {s[k] : k \in 1..Len(s)} : \A y \in {s[k] : k \in 1..Len(s)} : x >= y

\* np.linspace(start, stop, num).astype(int) for 0 <= start, stop: the k-th of num
\* evenly spaced values from start to stop, truncated
Linspace(start, stop, num) ==
    [k \in 1..num |->
        IF num = 1 THEN start
        ELSE (start * (num - 1) + (k - 1) * (stop - start)) \div (num - 1)]

\* the rows taken from the first to the last
SampleRowsAscending(height, num_profiles) == Linspace(0, height - 1, num_profiles)

SampleRows(height, num_profiles) == Linspace(height - 1, 0, num_profiles)

SampleCols(width, num_points) == Linspace(0, width - 1, num_points)

\* src.read(1)[r, cols] for every r of rows (indices from 0)
SampleProfiles(grid, rows, cols) ==
    [k \in 1..Len(rows) |-> [j \in 1..Len(cols) |-> grid[rows[k] + 1][cols[j] + 1]]]

Concatenate(profiles) ==
    [k \in 1..(Len(profiles) * Len(profiles[1])) |->
        profiles[((k - 1) \div Len(profiles[1])) + 1][((k - 1) % Len(profiles[1])) + 1]]

\* line 116: np.maximum(all_elevations, 0)
ClampAll(all_elevations) == [k \in 1..Len(all_elevations) |-> Max(all_elevations[k], 0)]

GlobalMin(profiles) == SeqMin(ClampAll(Concatenate(profiles)))

GlobalMax(profiles) == SeqMax(ClampAll(Concatenate(profiles)))

\* the loop's clamp left out
ClampProfileMissing(profile) == profile

\* line 150: np.maximum(profile, 0)
ClampProfile(profile) == [j \in 1..Len(profile) |-> Max(profile[j], 0)]

\* twice exaggerated_min, exaggerated_max and exaggerated_profile (ve2 is twice the factor)
ExaggeratedMin2(gmin) == 2 * gmin

\* the exaggerated maximum taken as global_max * vertical_exaggeration
ExaggeratedMax2OfMax(gmin, gmax, ve2) == gmax * ve2

ExaggeratedMax2(gmin, gmax, ve2) == 2 * gmin + (gmax - gmin) * ve2

\* the exaggeration applied with the wrong sign
Exaggerated2Inverted(p, gmin, ve2) == 2 * gmin - (p - gmin) * ve2

Exaggerated2(p, gmin, ve2) == 2 * gmin + (p - gmin) * ve2

Normalized(p, gmin, gmax, ve2) ==
    Q(Lin(Exaggerated2(p, gmin, ve2) - ExaggeratedMin2(gmin), 0),
      LinAdd(Lin(ExaggeratedMax2(gmin, gmax, ve2) - ExaggeratedMin2(gmin), 0), LinScale(2, EPS)))

ScaledPoint(p, gmin, gmax, ve2) ==
    LET norm == Normalized(p, gmin, gmax, ve2)
    IN  Q(LinScale(AmplitudeScaleNum * vertical_offset * 10, norm.n),
          LinScale(AmplitudeScaleDen, norm.d))

\* the loop body's scaled, from the raw profile
Scaled(profile, gmin, gmax, ve2) ==
    [j \in 1..Len(profile) |-> ScaledPoint(ClampProfile(profile)[j], gmin, gmax, ve2)]

YOffset(i) == i * vertical_offset

YVals(scaled, i) == [j \in 1..Len(scaled) |-> QAddInt(scaled[j], YOffset(i))]

\* zorder in tenths
\* the fill layered by index instead of by len - index
ZOrderFillByIndex(n, i) == 10 * i

ZOrderFill(n, i) == 10 * (n - i)

ZOrderLine(n, i) == 10 * (n - i) + 1

FillArtist(n, i, y) == [kind |-> "fill", idx |-> i, y |-> y, zorder |-> ZOrderFill(n, i)]

\* one ax.plot per segment j, j+1 under the colour gradient, else one white line
OutlineArtists(n, i, profile, y, gmin, gmax, use_color) ==
    IF use_color
    THEN [j \in 1..(Len(profile) - 1) |->
            [kind |-> "segment", idx |-> i, y |-> <<y[j], y[j + 1]>>, zorder |-> ZOrderLine(n, i),
             at |-> j - 1,
             color |-> elevation_to_color(ClampProfile(profile)[j], gmin, gmax, "matplotlib")]]
    ELSE << [kind |-> "line", idx |-> i, y |-> y, zorder |-> ZOrderLine(n, i)] >>

\* the artists one loop iteration adds to the axes, in call order
ProfileArtists(profiles, i, gmin, gmax, p) ==
    LET y == YVals(Scaled(profiles[i + 1], gmin, gmax, p.ve2), i)
    IN  <<FillArtist(Len(profiles), i, y)>>
        \o OutlineArtists(Len(profiles), i, profiles[i + 1], y, gmin, gmax, p.color)

\* matplotlib paints the artists of an axes in zorder, ties in the order they were added
RECURSIVE InsertByZorder(_, _)
InsertByZorder(a, s) ==
    IF s = <<>> THEN <<a>>
    ELSE IF a.zorder < Head(s).zorder THEN <<a>> \o s
    ELSE <<Head(s)>> \o InsertByZorder(a, Tail(s))

RECURSIVE Paint(_)
Paint(artists) ==
    IF artists = <<>> THEN <<>>
    ELSE InsertByZorder(artists[Len(artists)], Paint(SubSeq(artists, 1, Len(artists) - 1)))

Render(figure) ==
    [written |-> TRUE, xlim |-> figure.xlim, ylim |-> figure.ylim, tight |-> figure.tight,
     painted |-> Paint(figure.artists)]

NewFigure(xlim, ylim) == [xlim |-> xlim, ylim |-> ylim, tight |-> FALSE, artists |-> <<>>]

----------------------------------------------------------------------------
(* pyplot's registry of open figures (plt.subplots, plt.gcf, plt.close) *)

\* plt.gcf(): the current figure; with no figure open, a new empty one is made current
GcfFigs == IF gcf = <<>> THEN Append(figs, NewFigure(0, 0)) ELSE figs

GcfOpen == IF gcf = <<>> THEN <<Len(figs) + 1>> ELSE gcf

GcfCurrent == GcfOpen[Len(GcfOpen)]

----------------------------------------------------------------------------
(* generate_elevation_map, one action per step of the invocation t *)

Goto(t, label) == inv' = [inv EXCEPT ![t].pc = label]

Raise(t, e) ==
    /\ inv' = [inv EXCEPT ![t].pc = "raised", ![t].err = e]
    /\ UNCHANGED <<tmpfiles, figs, gcf, files, color>>

\* the call, with its arguments
Call(t, P) ==
    /\ inv[t].pc = "idle"
    /\ \E p \in P : inv' = [inv EXCEPT ![t].pc = "parse", ![t].params = p]
    /\ UNCHANGED <<tmpfiles, figs, gcf, files, color>>

\* lines 68-90: the bounding box of the polygon
ParseWkt(t) ==
    /\ inv[t].pc = "parse"
    /\ Goto(t, "download")
    /\ UNCHANGED <<tmpfiles, figs, gcf, files, color>>

\* line 68: wkt.loads raises on a malformed polygon
ParseWktFails(t) ==
    /\ inv[t].pc = "parse"
    /\ Raise(t, "WKTReadingError")

\* lines 93-95: status 200, with a body that is a raster of G or is no raster
Download(t, G) ==
    /\ inv[t].pc = "download"
    /\ \E c \in {[ok |-> TRUE, grid |-> g] : g \in G} \cup {NoContent} :
          inv' = [inv EXCEPT ![t].pc = "tempfile", ![t].content = c]
    /\ UNCHANGED <<tmpfiles, figs, gcf, files, color>>

\* lines 95-96: any other status
DownloadFails(t) ==
    /\ inv[t].pc = "download"
    /\ Raise(t, "Exception")

\* lines 98-100
WriteTemp(t) ==
    /\ inv[t].pc = "tempfile"
    /\ tmpfiles' = tmpfiles \cup {t}
    /\ inv' = [inv EXCEPT ![t].pc = "read", ![t].temp = TRUE]
    /\ UNCHANGED <<figs, gcf, files, color>>

\* lines 104-125: the profiles and their global range
ReadDem(t) ==
    /\ inv[t].pc = "read"
    /\ inv[t].content.ok
    /\ LET grid == inv[t].content.grid
           rows == SampleRows(Len(grid), inv[t].params.np)
           cols == SampleCols(Len(grid[1]), inv[t].params.npts)
           profiles == SampleProfiles(grid, rows, cols)
       IN  inv' = [inv EXCEPT ![t].pc = "subplots", ![t].rows = rows, ![t].cols = cols,
                              ![t].profiles = profiles,
                              ![t].gmin = GlobalMin(profiles), ![t].gmax = GlobalMax(profiles)]
    /\ UNCHANGED <<tmpfiles, figs, gcf, files, color>>

\* line 104: rasterio.open raises on a file that is no raster
ReadDemFails(t) ==
    /\ inv[t].pc = "read"
    /\ ~inv[t].content.ok
    /\ Raise(t, "RasterioIOError")

\* lines 137-143: a new figure, made pyplot's current figure
Subplots(t) ==
    /\ inv[t].pc = "subplots"
    /\ figs' = Append(figs, NewFigure(inv[t].params.npts, Len(inv[t].profiles) * vertical_offset))
    /\ gcf' = Append(gcf, Len(figs) + 1)
    /\ inv' = [inv EXCEPT ![t].pc = "draw", ![t].fig = Len(figs) + 1,
                          ![t].i = Len(inv[t].profiles)]
    /\ UNCHANGED <<tmpfiles, files, color>>

\* lines 146-170: one iteration of the loop over reversed(range(len(elevation_profiles)))
DrawProfile(t) ==
    /\ inv[t].pc = "draw"
    /\ inv[t].i > 0
    /\ LET i == inv[t].i - 1
       IN  /\ figs' = [figs EXCEPT ![inv[t].fig].artists =
                          @ \o ProfileArtists(inv[t].profiles, i, inv[t].gmin, inv[t].gmax,
                                              inv[t].params)]
           /\ inv' = [inv EXCEPT ![t].i = i,
                                 ![t].scaled = Scaled(inv[t].profiles[i + 1], inv[t].gmin,
                                                      inv[t].gmax, inv[t].params.ve2),
                                 ![t].pc = IF i = 0 THEN "makedirs" ELSE "draw"]
    /\ UNCHANGED <<tmpfiles, gcf, files, color>>

\* line 173
MakeDirs(t) ==
    /\ inv[t].pc = "makedirs"
    /\ Goto(t, "layout")
    /\ UNCHANGED <<tmpfiles, figs, gcf, files, color>>

\* line 173: the directory of output_path cannot be created
MakeDirsFails(t) ==
    /\ inv[t].pc = "makedirs"
    /\ Raise(t, "OSError")

\* line 175: plt.tight_layout() lays out pyplot's current figure
TightLayout(t) ==
    /\ inv[t].pc = "layout"
    /\ figs' = [GcfFigs EXCEPT ![GcfCurrent].tight = TRUE]
    /\ gcf' = GcfOpen
    /\ Goto(t, "savefig")
    /\ UNCHANGED <<tmpfiles, files, color>>

\* lines 176-177: plt.savefig(output_path) writes pyplot's current figure
Savefig(t) ==
    /\ inv[t].pc = "savefig"
    /\ figs' = GcfFigs
    /\ gcf' = GcfOpen
    /\ files' = [files EXCEPT ![OutputPath(t)] = Render(GcfFigs[GcfCurrent])]
    /\ Goto(t, "close")
    /\ UNCHANGED <<tmpfiles, color>>

\* lines 176-177: the file cannot be written
SavefigFails(t) ==
    /\ inv[t].pc = "savefig"
    /\ Raise(t, "OSError")

\* line 178: plt.close() closes pyplot's current figure, if there is one
Close(t) ==
    /\ inv[t].pc = "close"
    /\ gcf' = IF gcf = <<>> THEN gcf ELSE SubSeq(gcf, 1, Len(gcf) - 1)
    /\ Goto(t, "unlink")
    /\ UNCHANGED <<tmpfiles, figs, files, color>>

\* lines 183-185
Unlink(t) ==
    /\ inv[t].pc = "unlink"
    /\ tmpfiles' = tmpfiles \ {t}
    /\ Goto(t, "done")
    /\ UNCHANGED <<figs, gcf, files, color>>

\* a call of elevation_to_color on the arguments drawn by InitColor
ApplyColor ==
    /\ ~color.done
    /\ color' = [color EXCEPT !.done = TRUE,
                              !.out = elevation_to_color(color.in.value, color.in.min,
                                                         color.in.max, color.in.format)]
    /\ UNCHANGED <<inv, tmpfiles, figs, gcf, files>>

----------------------------------------------------------------------------
(* Specifications *)

\* one invocation over the survey rasters
Next ==
    \/ Call(1, Params)
    \/ ParseWkt(1)
    \/ ParseWktFails(1)
    \/ Download(1, SurveyGrids)
    \/ DownloadFails(1)
    \/ WriteTemp(1)
    \/ ReadDem(1)
    \/ ReadDemFails(1)
    \/ Subplots(1)
    \/ DrawProfile(1)
    \/ MakeDirs(1)
    \/ MakeDirsFails(1)
    \/ TightLayout(1)
    \/ Savefig(1)
    \/ SavefigFails(1)
    \/ Close(1)
    \/ Unlink(1)

Spec == Init /\ [][Next]_vars

\* one invocation over the ramp rasters, every number of profiles and points
NextSampler ==
    \/ Call(1, SamplerParams)
    \/ ParseWkt(1)
    \/ ParseWktFails(1)
    \/ Download(1, RampGrids)
    \/ DownloadFails(1)
    \/ WriteTemp(1)
    \/ ReadDem(1)
    \/ ReadDemFails(1)
    \/ Subplots(1)
    \/ DrawProfile(1)
    \/ MakeDirs(1)
    \/ MakeDirsFails(1)
    \/ TightLayout(1)
    \/ Savefig(1)
    \/ SavefigFails(1)
    \/ Close(1)
    \/ Unlink(1)

SpecSampler == Init /\ [][NextSampler]_vars

\* the invocations of all threads, interleaved step by step
NextConc ==
    \E t \in Threads :
        \/ Call(t, ConcParams)
        \/ ParseWkt(t)
        \/ ParseWktFails(t)
        \/ Download(t, ConcGrids)
        \/ DownloadFails(t)
        \/ WriteTemp(t)
        \/ ReadDem(t)
        \/ ReadDemFails(t)
        \/ Subplots(t)
        \/ DrawProfile(t)
        \/ MakeDirs(t)
        \/ MakeDirsFails(t)
        \/ TightLayout(t)
        \/ Savefig(t)
        \/ SavefigFails(t)
        \/ Close(t)
        \/ Unlink(t)

SpecConc == Init /\ [][NextConc]_vars

\* elevation_to_color alone, on every argument of ColorInputs
InitColor ==
    /\ inv = [t \in Threads |-> Idle]
    /\ tmpfiles = {}
    /\ figs = <<>>
    /\ gcf = <<>>
    /\ files = [p \in Threads |-> NoImage]
    /\ color \in {[done |-> FALSE, in |-> c, out |-> NoColor.out] : c \in ColorInputs}

NextColor == ApplyColor

SpecColor == InitColor /\ [][NextColor]_vars

----------------------------------------------------------------------------
(* Helpers of the claims *)

Artists(t) == IF inv[t].fig = 0 THEN <<>> ELSE figs[inv[t].fig].artists

ArtistSet(t) == {Artists(t)[k] : k \in 1..Len(Artists(t))}

\* the loop has run to its end
Drawn(t) == inv[t].fig # 0 /\ inv[t].pc # "draw"

\* the points of an outline artist, as <<column (from 1), y>>
OutlinePoints(a) ==
    IF a.kind = "line" THEN {<<j, a.y[j]>> : j \in 1..Len(a.y)}
    ELSE IF a.kind = "segment" THEN {<<a.at + 1, a.y[1]>>, <<a.at + 2, a.y[2]>>}
    ELSE {}

FillOf(t, i) == CHOOSE a \in ArtistSet(t) : a.kind = "fill" /\ a.idx = i

\* two profiles drawn under an exaggeration >= 1, the front one (index 0) higher at
\* every column
FrontHigher(t) ==
    /\ Drawn(t)
    /\ inv[t].params.ve2 >= 2
    /\ Len(inv[t].profiles) = 2
    /\ \A j \in 1..Len(inv[t].profiles[1]) : inv[t].profiles[1][j] > inv[t].profiles[2][j]

RECURSIVE ComposedArtists(_, _, _, _, _)
\* the artists of the whole loop, iterations k-1 down to 0
ComposedArtists(profiles, k, gmin, gmax, p) ==
    IF k = 0 THEN <<>>
    ELSE ProfileArtists(profiles, k - 1, gmin, gmax, p)
         \o ComposedArtists(profiles, k - 1, gmin, gmax, p)

\* the image of invocation t's own figure, complete and laid out
OwnImage(t) ==
    Render([xlim |-> inv[t].params.npts, ylim |-> Len(inv[t].profiles) * vertical_offset,
            tight |-> TRUE,
            artists |-> ComposedArtists(inv[t].profiles, Len(inv[t].profiles),
                                        inv[t].gmin, inv[t].gmax, inv[t].params)])

IsRGB(out, format, r, g, b) ==
    IF format = "matplotlib"
    THEN out = << <<r, 255>>, <<g, 255>>, <<b, 255>> >>
    ELSE out = <<"rgb", r, g, b>>

----------------------------------------------------------------------------
(* Claims *)

\* C1 (as stated): with 2 profiles and profile 0 higher than profile 1 at every column,
\* every outline point of profile 1 lies at or below the curve of profile 0.
C1_BehindOccluded ==
    FrontHigher(1) =>
        \A a \in ArtistSet(1) : a.idx = 1 =>
            \A pt \in OutlinePoints(a) : QLe(pt[2], FillOf(1, 0).y[pt[1]])

\* C1 (amended): with 2 profiles and profile 0 higher than profile 1 at every column,
\* every outline point of profile 1 lies at most vertical_offset above the curve of
\* profile 0 (the draw height of profile 1 never exceeds that of profile 0).
C1_BehindWithinOffset ==
    FrontHigher(1) =>
        \A a \in ArtistSet(1) : a.idx = 1 =>
            \A pt \in OutlinePoints(a) :
                QLe(pt[2], QAddInt(FillOf(1, 0).y[pt[1]], vertical_offset))

\* C1 witness: such a render, where an outline point of profile 1 shows above the front curve
C1_Witness ==
    /\ FrontHigher(1)
    /\ \E a \in ArtistSet(1) : a.idx = 1 /\
          \E pt \in OutlinePoints(a) : QLt(FillOf(1, 0).y[pt[1]], pt[2])

\* C2 (as stated): for every range min <= max, the colour at value = min is dark blue
\* (0,0,139) and the colour at value = max is pure red (255,0,0).
C2_EndsOfRange ==
    (color.done /\ color.in.min <= color.in.max) =>
        /\ color.in.value = color.in.min => IsRGB(color.out, color.in.format, 0, 0, 139)
        /\ color.in.value = color.in.max => IsRGB(color.out, color.in.format, 255, 0, 0)

\* C2 (amended): for every range of integer elevations, the colour at value = min is dark
\* blue (0,0,139), also when min = max; the colour at value = max is pure red (255,0,0)
\* when min < max.
C2_EndsOfProperRange ==
    (color.done /\ color.in.min <= color.in.max) =>
        /\ color.in.value = color.in.min => IsRGB(color.out, color.in.format, 0, 0, 139)
        /\ (color.in.value = color.in.max /\ color.in.min < color.in.max)
              => IsRGB(color.out, color.in.format, 255, 0, 0)

\* C2 witness: the colour of the maximum of a proper range with a positive minimum
C2_Witness ==
    /\ color.done
    /\ 0 < color.in.min /\ color.in.min < color.in.max
    /\ color.in.value = color.in.max
    /\ IsRGB(color.out, color.in.format, 255, 0, 0)

\* C3: for vertical_exaggeration >= 1, every draw height the loop computes lies in
\* [0, amplitude_scale * vertical_offset * 10].
C3_DrawHeightInRange ==
    inv[1].params.ve2 >= 2 =>
        \A j \in 1..Len(inv[1].scaled) :
            /\ QLe(QInt(0), inv[1].scaled[j])
            /\ QLe(inv[1].scaled[j],
                   Q(Lin(AmplitudeScaleNum * vertical_offset * 10, 0), Lin(AmplitudeScaleDen, 0)))

\* C3 witness: heights computed from a profile with a sample below sea level, in a
\* render with a proper range
C3_Witness ==
    /\ inv[1].params.ve2 >= 2
    /\ inv[1].scaled # <<>>
    /\ inv[1].gmax > inv[1].gmin
    /\ \E j \in 1..Len(inv[1].scaled) : inv[1].profiles[inv[1].i + 1][j] < 0
    /\ \E j \in 1..Len(inv[1].scaled) : QLt(QInt(0), inv[1].scaled[j])

\* C4 (as stated): under every interleaving of the invocations, each output file holds
\* exactly the image composed from its own invocation's profiles.
C4_OwnImageSaved ==
    \A t \in Threads :
        files[OutputPath(t)].written => files[OutputPath(t)] = OwnImage(t)

\* C5 (as stated): an invocation with vertical_exaggeration < 1.0 is rejected: it
\* normalizes and draws no profile, writes no image and does not return.
C5_LowExaggerationRejected ==
    (inv[1].pc # "idle" /\ inv[1].params.ve2 < 2) =>
        /\ inv[1].scaled = <<>>
        /\ Artists(1) = <<>>
        /\ ~files[OutputPath(1)].written
        /\ inv[1].pc # "done"

\* C6 (as stated): an invocation that fails has raised before any profile was drawn and
\* has written no output image (checked on the invocations with exaggeration >= 1).
C6_FailsBeforeDrawing ==
    (inv[1].pc = "raised" /\ inv[1].params.ve2 >= 2) =>
        /\ Artists(1) = <<>>
        /\ ~files[OutputPath(1)].written

\* C7: with num_profiles = 1 the one profile is the grid's last row; with num_profiles = H
\* and num_points_per_profile = W the profiles are the rows H-1, ..., 0 in that order,
\* each with every column once.
C7_SampledRows ==
    LET grid == inv[1].content.grid
        H == Len(grid)
        W == Len(grid[1])
        p == inv[1].params
    IN  inv[1].rows # <<>> =>
            /\ p.np = 1 =>
                  /\ inv[1].rows = <<H - 1>>
                  /\ Len(inv[1].profiles) = 1
                  /\ inv[1].profiles[1] = [j \in 1..p.npts |-> grid[H][inv[1].cols[j] + 1]]
            /\ (p.np = H /\ p.npts = W) =>
                  /\ inv[1].rows = [k \in 1..H |-> H - k]
                  /\ inv[1].cols = [j \in 1..W |-> j - 1]
                  /\ inv[1].profiles = [k \in 1..H |-> grid[H - k + 1]]

\* C7 witness: every row and column of a grid of 3 rows and 2 columns sampled
C7_Witness ==
    /\ inv[1].rows # <<>>
    /\ Len(inv[1].content.grid) = 3 /\ Len(inv[1].content.grid[1]) = 2
    /\ inv[1].params.np = 3 /\ inv[1].params.npts = 2
    /\ inv[1].profiles = << <<4, 5>>, <<2, 3>>, <<0, 1>> >>

\* C8: profile i has baseline i * vertical_offset; for i < j the fill and the outline of
\* profile i are layered above the fill and the outline of profile j, and each profile's
\* outline above its own fill.
C8_Layering ==
    LET P == Paint(Artists(1))
    IN  /\ \A a \in ArtistSet(1) :
              (a.kind = "fill" /\ a.idx = inv[1].i) =>
                  a.y = [j \in 1..Len(inv[1].scaled) |->
                            QAddInt(inv[1].scaled[j], a.idx * vertical_offset)]
        /\ \A a, b \in ArtistSet(1) :
              /\ a.idx < b.idx => a.zorder > b.zorder
              /\ (a.idx = b.idx /\ a.kind = "fill" /\ b.kind # "fill") => b.zorder > a.zorder
        /\ \A m, n \in 1..Len(P) :
              /\ P[m].idx > P[n].idx => m < n
              /\ (P[m].idx = P[n].idx /\ P[m].kind = "fill" /\ P[n].kind # "fill") => m < n

\* C8 witness: two profiles drawn, each with a fill and an outline
C8_Witness ==
    /\ Drawn(1)
    /\ \A i \in {0, 1} : \E a, b \in ArtistSet(1) :
          a.idx = i /\ b.idx = i /\ a.kind = "fill" /\ b.kind # "fill"

C10_TempDeleted ==
    (inv[1].pc \in {"done", "raised"} /\ inv[1].temp /\ inv[1].params.ve2 >= 2)
        => 1 \notin tmpfiles

====
